---- MODULE Spec2Model ----
(***************************************************************************)
(* Model of the interval analysis pipeline of app/public/analysis.py:     *)
(* calculate_pace_min_per_km, identify_intervals and the refiner          *)
(* (post_process_intervals) with its capped merge loop.                    *)
(*                                                                         *)
(* Encoding of the data frame columns.                                     *)
(*   - a numeric cell is <<v>>, an undefined cell (NaN / NaT) is <<>>;     *)
(*   - positions lie on one meridian: latitude is given in metres along    *)
(*     it, so that the great-circle distance is |lat2 - lat1| metres;      *)
(*   - distances are in metres, times in seconds;                          *)
(*   - a pace cell is <<t, d>>, standing for (t / 60) / (d / 1000)         *)
(*     minutes per km, with d > 0; comparisons cross-multiply;             *)
(*   - a rational parameter is <<num, den>> with den > 0.                  *)
(***************************************************************************)
EXTENDS Integers, Sequences, FiniteSets, TLC

VARIABLES
    pc,                     \* position in run_analysis / merge_short_intervals
    params,                 \* the params dict of run_analysis
    latitude, longitude, time,      \* the fix table
    segment_time_seconds, segment_distance_km,
    pace_min_per_km,
    interval_type, interval_id,
    is_real_interval,
    df_intervals,           \* labels returned by identify_intervals (run_analysis)
    min_interval_time_seconds,      \* argument of the refiner stages
    iteration,              \* loop counter of merge_short_intervals
    exit_reason,            \* how the merge loop was left
    call,                   \* which call of merge_short_intervals is running
    first_output            \* labels and ids returned by the first call

vars == <<pc, params, latitude, longitude, time, segment_time_seconds,
          segment_distance_km, pace_min_per_km, interval_type, interval_id,
          is_real_interval, df_intervals, min_interval_time_seconds,
          iteration, exit_reason, call, first_output>>

(***************************************************************************)
(* Bounds of the model.                                                    *)
(***************************************************************************)
MaxLen == 3
MaxMergeLen == 4
LongLen == 103

(***************************************************************************)
(* Configuration constants.                                                *)
(***************************************************************************)
MAX_SPEED_KMH_THRESHOLD == 25
SMOOTHING_WINDOW == 5
PACE_DIFFERENCE_THRESHOLD == 1
LMA_WINDOW == 15
MIN_INTERVAL_PACE_PER_KM == <<11, 2>>
MIN_INTERVAL_TIME_SECONDS == 50
MIN_DISTANCE_FOR_PACE_KM == <<2, 100>>
max_iterations == 100

(***************************************************************************)
(* Cells.                                                                  *)
(***************************************************************************)
NaN == <<>>
isna(x) == x = NaN
Num(v) == <<v>>
Abs(x) == IF x < 0 THEN -x ELSE x
Indices(col) == 1..Len(col)
\* a column built row by row, as a sequence
AsColumn(f) == f \o <<>>

\* Series.sum() / rolling sum over the rows lo..hi: undefined cells are skipped.
RECURSIVE SumSkipNa(_, _, _)
SumSkipNa(col, lo, hi) ==
    IF hi < lo THEN 0
    ELSE (IF isna(col[hi]) THEN 0 ELSE col[hi][1]) + SumSkipNa(col, lo, hi - 1)

CountValid(col, lo, hi) == Cardinality({k \in lo..hi : ~isna(col[k])})

\* variant: an undefined cell makes the whole window sum undefined
RollingSum_NaNPropagates(col, window) ==
    [i \in Indices(col) |->
        LET lo == IF i - window + 1 < 1 THEN 1 ELSE i - window + 1
        IN  IF CountValid(col, lo, i) < i - lo + 1 THEN NaN
            ELSE Num(SumSkipNa(col, lo, i))]

\* Series.rolling(window, min_periods=1).sum(): NaN when the window holds no
\* defined cell.
RollingSum(col, window) ==
    [i \in Indices(col) |->
        LET lo == IF i - window + 1 < 1 THEN 1 ELSE i - window + 1
        IN  IF CountValid(col, lo, i) < 1 THEN NaN
            ELSE Num(SumSkipNa(col, lo, i))]

\* np.where(distance > 0, time_minutes / distance, nan)
PaceOf(t, d) ==
    IF isna(d) \/ isna(t) THEN NaN
    ELSE IF d[1] > 0 THEN <<t[1], d[1]>> ELSE NaN

(***************************************************************************)
(* Segment deriver and pace smoother.                                      *)
(***************************************************************************)
haversine_distance(lat1, lon1, lat2, lon2) ==
    IF isna(lat1) \/ isna(lon1) \/ isna(lat2) \/ isna(lon2) THEN NaN
    ELSE Num(Abs(lat2[1] - lat1[1]) + Abs(lon2[1] - lon1[1]))

\* Series.shift(1)
shift1(col) == [i \in Indices(col) |-> IF i = 1 THEN NaN ELSE col[i - 1]]

\* Series.diff() of the time column
TimeDiff(col) ==
    AsColumn([i \in Indices(col) |->
        IF i = 1 THEN NaN
        ELSE IF isna(col[i]) \/ isna(col[i - 1]) THEN NaN
        ELSE Num(col[i][1] - col[i - 1][1])])

distance_km_raw(lat, lon) ==
    [i \in Indices(lat) |->
        haversine_distance(shift1(lat)[i], shift1(lon)[i], lat[i], lon[i])]

\* instantaneous_speed_kmh > MAX_SPEED_KMH_THRESHOLD, where the speed is
\* (d / 1000) / (t / 3600) when t > 0 and 0.0 otherwise.
is_outlier(raw, seg_time) ==
    [i \in Indices(raw) |->
        IF ~isna(seg_time[i]) /\ seg_time[i][1] > 0
        THEN ~isna(raw[i])
             /\ 3600 * raw[i][1] > MAX_SPEED_KMH_THRESHOLD * 1000 * seg_time[i][1]
        ELSE 0 > MAX_SPEED_KMH_THRESHOLD]

\* The two successive assignments to df["segment_distance_km"].
SegmentDistance(lat, lon, seg_time) ==
    LET raw == distance_km_raw(lat, lon)
        outl == is_outlier(raw, seg_time)
        first == [i \in Indices(raw) |-> IF outl[i] THEN Num(0) ELSE raw[i]]
        second == [i \in Indices(raw) |->
                     IF isna(lat[i]) \/ isna(lon[i])
                        \/ isna(shift1(lat)[i]) \/ isna(shift1(lon)[i])
                     THEN NaN
                     ELSE raw[i]]
    IN  AsColumn(second)

RollingPace(seg_time, seg_dist, window) ==
    LET rt == RollingSum(seg_time, window)
        rd == RollingSum(seg_dist, window)
    IN  AsColumn([i \in Indices(seg_time) |-> PaceOf(rt[i], rd[i])])

(***************************************************************************)
(* Interval classifier.                                                    *)
(***************************************************************************)
\* variant: the first row does not open an interval (ids start at 0)
RunLengthIds_FromZero(types) ==
    AsColumn([i \in Indices(types) |->
        Cardinality({j \in 2..i : types[j] # types[j - 1]})])

\* (type != type.shift(1)).cumsum().fillna(1)
RunLengthIds(types) ==
    AsColumn([i \in Indices(types) |->
        Cardinality({j \in 1..i : j = 1 \/ types[j] # types[j - 1]})])

\* pace_lma - pace_min_per_km < -threshold, threshold = <<num, den>>;
\* any comparison with NaN is false.
DeviationBelow(lma, pace, thr) ==
    /\ ~isna(lma)
    /\ ~isna(pace)
    /\ 50 * thr[2] * (lma[1] * pace[2] - pace[1] * lma[2])
         < -(3 * thr[1] * lma[2] * pace[2])

ClassifyTypes(seg_time, seg_dist, pace, lma_window, thr) ==
    LET pace_lma == RollingPace(seg_time, seg_dist, lma_window)
    IN  AsColumn([i \in Indices(seg_time) |->
            IF DeviationBelow(pace_lma[i], pace[i], thr)
            THEN "Slow Interval" ELSE "Steady"])

(***************************************************************************)
(* Interval summaries (df.groupby("interval_id").agg(...)).                *)
(***************************************************************************)
all_ids(ids) == {ids[i] : i \in Indices(ids)}

RECURSIVE GroupSum(_, _, _, _, _)
GroupSum(col, ids, g, lo, hi) ==
    IF hi < lo THEN 0
    ELSE IF lo = hi
         THEN (IF ids[lo] = g /\ ~isna(col[lo]) THEN col[lo][1] ELSE 0)
         ELSE LET mid == (lo + hi) \div 2
              IN  GroupSum(col, ids, g, lo, mid) + GroupSum(col, ids, g, mid + 1, hi)

\* agg(..., "sum") of one group: undefined cells are skipped
GroupTotal(col, ids, g) == GroupSum(col, ids, g, 1, Len(ids))

\* agg(interval_type, "first") of one group
GroupType(types, ids, g) ==
    types[CHOOSE i \in Indices(ids) :
            ids[i] = g /\ \A j \in Indices(ids) : ids[j] = g => i <= j]

\* x < r and x >= r for an integer x and a rational r
LtRat(x, r) == x * r[2] < r[1]

(***************************************************************************)
(* Refiner stages.                                                         *)
(***************************************************************************)
SlowToRecovery(types) ==
    AsColumn([i \in Indices(types) |->
        IF types[i] = "Slow Interval" THEN "Recovery" ELSE types[i]])

\* summary["pace_min_per_km"] > pace_threshold
PaceAbove(pace, thr) ==
    /\ ~isna(pace)
    /\ 50 * pace[1] * thr[2] > 3 * thr[1] * pace[2]

\* summary["total_distance_km"] < MIN_DISTANCE_FOR_PACE_KM
DistanceBelowFloor(d) ==
    d * MIN_DISTANCE_FOR_PACE_KM[2] < MIN_DISTANCE_FOR_PACE_KM[1] * 1000

\* variant: the distance floor is not applied
low_pace_steady_ids_NoFloor(types, ids, seg_time, seg_dist, pace_threshold) ==
    {g \in all_ids(ids) :
        LET total_distance_km == GroupTotal(seg_dist, ids, g)
            total_time_seconds == GroupTotal(seg_time, ids, g)
            pace == PaceOf(Num(total_time_seconds), Num(total_distance_km))
        IN  /\ GroupType(types, ids, g) = "Steady"
            /\ PaceAbove(pace, pace_threshold)}

low_pace_steady_ids(types, ids, seg_time, seg_dist, pace_threshold) ==
    {g \in all_ids(ids) :
        LET total_distance_km == GroupTotal(seg_dist, ids, g)
            total_time_seconds == GroupTotal(seg_time, ids, g)
            pace == PaceOf(Num(total_time_seconds), Num(total_distance_km))
        IN  /\ GroupType(types, ids, g) = "Steady"
            /\ \/ PaceAbove(pace, pace_threshold)
               \/ DistanceBelowFloor(total_distance_km)}

LowPaceToRecovery(types, ids, seg_time, seg_dist, pace_threshold) ==
    LET low == low_pace_steady_ids(types, ids, seg_time, seg_dist, pace_threshold)
    IN  AsColumn([i \in Indices(types) |->
                     IF ids[i] \in low THEN "Recovery" ELSE types[i]])

(***************************************************************************)
(* One pass of the loop of merge_short_intervals.  The summary has one row *)
(* per interval id, in increasing id order; prev_id, next_id and target_id *)
(* are sets of ids: empty for None, a singleton otherwise.                 *)
(***************************************************************************)
\* variant: the comparison is inverted
is_short_Inverted(ids, seg_time, min_time, g) ==
    ~LtRat(GroupTotal(seg_time, ids, g), min_time)

\* summary["total_time_seconds"] < min_interval_time_seconds, for one row
is_short(ids, seg_time, min_time, g) ==
    LtRat(GroupTotal(seg_time, ids, g), min_time)

short_intervals(ids, seg_time, min_time) ==
    {g \in all_ids(ids) : is_short(ids, seg_time, min_time, g)}

\* all_ids[current_idx - 1]: the greatest id below g
prev_id(ids, g) ==
    IF g - 1 \in all_ids(ids) THEN {g - 1}
    ELSE {h \in all_ids(ids) : h < g /\ \A k \in all_ids(ids) : k < g => k <= h}

\* all_ids[current_idx + 1]: the least id above g
next_id(ids, g) ==
    IF g + 1 \in all_ids(ids) THEN {g + 1}
    ELSE {h \in all_ids(ids) : h > g /\ \A k \in all_ids(ids) : k > g => k >= h}

target_id(types, ids, g) ==
    LET same(S) == {h \in S : GroupType(types, ids, h) = GroupType(types, ids, g)}
    IN  IF same(prev_id(ids, g)) # {} THEN same(prev_id(ids, g))
        ELSE IF same(next_id(ids, g)) # {} THEN same(next_id(ids, g))
        ELSE IF prev_id(ids, g) # {} THEN prev_id(ids, g)
        ELSE next_id(ids, g)

merged_any(types, ids, seg_time, min_time) ==
    {g \in short_intervals(ids, seg_time, min_time) :
        target_id(types, ids, g) # {}} # {}

\* variant: each short interval reads the labels as relabeled so far in the
\* same pass instead of the summary taken at the start of the pass
MergePassTypes_InPlace(types, ids, seg_time, min_time) ==
    LET keys == all_ids(ids)
        done[g \in keys \cup {0}] ==
            IF g = 0 \/ prev_id(ids, g) = {} THEN
                IF g # 0 /\ is_short(ids, seg_time, min_time, g) /\ next_id(ids, g) # {}
                THEN GroupType(types, ids, CHOOSE h \in next_id(ids, g) : TRUE)
                ELSE IF g = 0 THEN "" ELSE GroupType(types, ids, g)
            ELSE IF is_short(ids, seg_time, min_time, g)
                 THEN done[CHOOSE h \in prev_id(ids, g) : TRUE]
                 ELSE GroupType(types, ids, g)
    IN  AsColumn([i \in Indices(types) |-> done[ids[i]]])

\* the labels after the for loop over short_intervals
MergePassTypes(types, ids, seg_time, min_time) ==
    AsColumn([i \in Indices(types) |->
        IF /\ is_short(ids, seg_time, min_time, ids[i])
           /\ target_id(types, ids, ids[i]) # {}
        THEN GroupType(types, ids, CHOOSE h \in target_id(types, ids, ids[i]) : TRUE)
        ELSE types[i]])

\* variant: strictly longer than the minimum
real_interval_ids_Strict(ids, seg_time, min_time) ==
    {g \in all_ids(ids) : GroupTotal(seg_time, ids, g) * min_time[2] > min_time[1]}

real_interval_ids(ids, seg_time, min_time) ==
    {g \in all_ids(ids) : ~LtRat(GroupTotal(seg_time, ids, g), min_time)}

(***************************************************************************)
(* run_analysis: parameters and inputs.                                    *)
(***************************************************************************)
\* read_param: a missing or falsy value is replaced by the default
read_param(p, key, default) ==
    IF key \notin DOMAIN p THEN default
    ELSE IF p[key][1] = 0 THEN default
    ELSE p[key]

IntOf(r) == r[1] \div r[2]

ParamSets ==
    { [k \in {} |-> <<0, 1>>],
      [smoothWin |-> <<1, 1>>, lmaWin |-> <<2, 1>>, paceDifferenceThreshold |-> <<0, 1>>],
      [smoothWin |-> <<1, 1>>, lmaWin |-> <<2, 1>>, minTimeSec |-> <<30, 1>>,
       minIntervalPacePerKm |-> <<7, 1>>, paceDifferenceThreshold |-> <<1, 2>>] }

\* <<latitude, longitude>> of a fix, in metres
PosValues == {<<NaN, Num(0)>>, <<Num(0), NaN>>, <<Num(0), Num(0)>>,
              <<Num(100), Num(0)>>}
\* timestamps, in seconds
TimeValues == {Num(0), Num(10), Num(40)}

TypeValues == {"Steady", "Recovery"}

\* segment times given to merge_short_intervals when it is studied alone
MergeTimeValues == {Num(10), Num(60), Num(-20)}

ColumnOf(n, v) == [i \in 1..n |-> v]

(***************************************************************************)
(* run_analysis, one action per stage.                                     *)
(***************************************************************************)
Init ==
    /\ pc = "extracted"
    /\ params \in ParamSets
    /\ \E n \in 1..MaxLen :
         /\ \E pos \in [1..n -> PosValues] :
              /\ latitude = [i \in 1..n |-> pos[i][1]]
              /\ longitude = [i \in 1..n |-> pos[i][2]]
         /\ time \in [1..n -> TimeValues]
    /\ segment_time_seconds = <<>>
    /\ segment_distance_km = <<>>
    /\ pace_min_per_km = <<>>
    /\ interval_type = <<>>
    /\ interval_id = <<>>
    /\ is_real_interval = <<>>
    /\ df_intervals = <<>>
    /\ min_interval_time_seconds = <<MIN_INTERVAL_TIME_SECONDS, 1>>
    /\ iteration = 0
    /\ exit_reason = "none"
    /\ call = 0
    /\ first_output = <<>>

calculate_pace_min_per_km ==
    /\ pc = "extracted"
    /\ LET window_size == IntOf(read_param(params, "smoothWin", <<SMOOTHING_WINDOW, 1>>))
           seg_time == TimeDiff(time)
           seg_dist == SegmentDistance(latitude, longitude, seg_time)
       IN  /\ segment_time_seconds' = seg_time
           /\ segment_distance_km' = seg_dist
           /\ pace_min_per_km' = RollingPace(seg_time, seg_dist, window_size)
    /\ pc' = "paced"
    /\ UNCHANGED <<params, latitude, longitude, time, interval_type, interval_id,
                   is_real_interval, df_intervals, min_interval_time_seconds,
                   iteration, exit_reason, call, first_output>>

identify_intervals ==
    /\ pc = "paced"
    /\ LET lma_window == IntOf(read_param(params, "lmaWin", <<LMA_WINDOW, 1>>))
           thr == read_param(params, "paceDifferenceThreshold",
                             <<PACE_DIFFERENCE_THRESHOLD, 1>>)
           types == ClassifyTypes(segment_time_seconds, segment_distance_km,
                                  pace_min_per_km, lma_window, thr)
       IN  /\ interval_type' = types
           /\ interval_id' = RunLengthIds(types)
           /\ df_intervals' = types
    /\ pc' = "classified"
    /\ UNCHANGED <<params, latitude, longitude, time, segment_time_seconds,
                   segment_distance_km, pace_min_per_km, is_real_interval,
                   min_interval_time_seconds, iteration, exit_reason, call,
                   first_output>>

\* entry of post_process_intervals and its first stage
convert_slow_intervals_to_recovery ==
    /\ pc = "classified"
    /\ min_interval_time_seconds' =
         read_param(params, "minTimeSec", <<MIN_INTERVAL_TIME_SECONDS, 1>>)
    /\ interval_type' = SlowToRecovery(interval_type)
    /\ interval_id' = RunLengthIds(interval_type')
    /\ pc' = "slow_converted"
    /\ UNCHANGED <<params, latitude, longitude, time, segment_time_seconds,
                   segment_distance_km, pace_min_per_km, is_real_interval,
                   df_intervals, iteration, exit_reason, call, first_output>>

convert_low_pace_steady_to_recovery ==
    /\ pc = "slow_converted"
    /\ LET pace_threshold == read_param(params, "minIntervalPacePerKm",
                                        MIN_INTERVAL_PACE_PER_KM)
       IN  interval_type' = LowPaceToRecovery(interval_type, interval_id,
                                segment_time_seconds, segment_distance_km,
                                pace_threshold)
    /\ interval_id' = RunLengthIds(interval_type')
    /\ pc' = "low_converted"
    /\ UNCHANGED <<params, latitude, longitude, time, segment_time_seconds,
                   segment_distance_km, pace_min_per_km, is_real_interval,
                   df_intervals, min_interval_time_seconds, iteration,
                   exit_reason, call, first_output>>

(***************************************************************************)
(* merge_short_intervals: entry, the loop and its three exits.             *)
(***************************************************************************)
\* variants: one pass too many; a single pass
loop_condition_Inclusive(it) == it <= max_iterations
loop_condition_OnePass(it) == it < 1

\* while iteration < max_iterations
loop_condition(it) == it < max_iterations

MergeUnchanged == <<params, latitude, longitude, time, segment_time_seconds,
                    segment_distance_km, pace_min_per_km, is_real_interval,
                    df_intervals, min_interval_time_seconds, call, first_output>>

merge_enter ==
    /\ pc = "low_converted"
    /\ iteration' = 0
    /\ exit_reason' = "none"
    /\ call' = 1
    /\ pc' = "merging"
    /\ UNCHANGED <<params, latitude, longitude, time, segment_time_seconds,
                   segment_distance_km, pace_min_per_km, interval_type,
                   interval_id, is_real_interval, df_intervals,
                   min_interval_time_seconds, first_output>>

\* while iteration < max_iterations: false
merge_exit_cap ==
    /\ pc = "merging"
    /\ ~loop_condition(iteration)
    /\ pc' = "merged"
    /\ exit_reason' = "cap"
    /\ UNCHANGED <<interval_type, interval_id, iteration>>
    /\ UNCHANGED MergeUnchanged

\* if len(short_intervals) == 0: break
merge_break_no_short ==
    /\ pc = "merging"
    /\ loop_condition(iteration)
    /\ short_intervals(interval_id, segment_time_seconds,
                       min_interval_time_seconds) = {}
    /\ pc' = "merged"
    /\ exit_reason' = "no_short"
    /\ UNCHANGED <<interval_type, interval_id, iteration>>
    /\ UNCHANGED MergeUnchanged

\* variant: the loop is left as soon as some interval is short
merge_break_not_merged_Always ==
    /\ pc = "merging"
    /\ loop_condition(iteration)
    /\ short_intervals(interval_id, segment_time_seconds,
                       min_interval_time_seconds) # {}
    /\ pc' = "merged"
    /\ exit_reason' = "not_merged"
    /\ UNCHANGED <<interval_type, interval_id, iteration>>
    /\ UNCHANGED MergeUnchanged

\* if not merged_any: break
merge_break_not_merged ==
    /\ pc = "merging"
    /\ loop_condition(iteration)
    /\ short_intervals(interval_id, segment_time_seconds,
                       min_interval_time_seconds) # {}
    /\ ~merged_any(interval_type, interval_id, segment_time_seconds,
                   min_interval_time_seconds)
    /\ pc' = "merged"
    /\ exit_reason' = "not_merged"
    /\ UNCHANGED <<interval_type, interval_id, iteration>>
    /\ UNCHANGED MergeUnchanged

\* variant: the ids are not re-derived after the pass
merge_pass_StaleIds ==
    /\ pc = "merging"
    /\ loop_condition(iteration)
    /\ short_intervals(interval_id, segment_time_seconds,
                       min_interval_time_seconds) # {}
    /\ merged_any(interval_type, interval_id, segment_time_seconds,
                  min_interval_time_seconds)
    /\ interval_type' = MergePassTypes(interval_type, interval_id,
                                       segment_time_seconds,
                                       min_interval_time_seconds)
    /\ iteration' = iteration + 1
    /\ UNCHANGED <<pc, exit_reason, interval_id>>
    /\ UNCHANGED MergeUnchanged

\* one full pass: relabel, re-derive the ids, iteration += 1
merge_pass ==
    /\ pc = "merging"
    /\ loop_condition(iteration)
    /\ short_intervals(interval_id, segment_time_seconds,
                       min_interval_time_seconds) # {}
    /\ merged_any(interval_type, interval_id, segment_time_seconds,
                  min_interval_time_seconds)
    /\ interval_type' = MergePassTypes(interval_type, interval_id,
                                       segment_time_seconds,
                                       min_interval_time_seconds)
    /\ interval_id' = RunLengthIds(interval_type')
    /\ iteration' = iteration + 1
    /\ UNCHANGED <<pc, exit_reason>>
    /\ UNCHANGED MergeUnchanged

mark_real_intervals ==
    /\ pc = "merged"
    /\ interval_id' = RunLengthIds(interval_type)
    /\ is_real_interval' =
         LET real == real_interval_ids(interval_id', segment_time_seconds,
                                       min_interval_time_seconds)
         IN  AsColumn([i \in Indices(interval_type) |-> interval_id'[i] \in real])
    /\ pc' = "done"
    /\ UNCHANGED <<params, latitude, longitude, time, segment_time_seconds,
                   segment_distance_km, pace_min_per_km, interval_type,
                   df_intervals, min_interval_time_seconds, iteration,
                   exit_reason, call, first_output>>

Next ==
    \/ calculate_pace_min_per_km
    \/ identify_intervals
    \/ convert_slow_intervals_to_recovery
    \/ convert_low_pace_steady_to_recovery
    \/ merge_enter
    \/ merge_pass
    \/ merge_break_no_short
    \/ merge_break_not_merged
    \/ merge_exit_cap
    \/ mark_real_intervals

Spec == Init /\ [][Next]_vars

(***************************************************************************)
(* merge_short_intervals on its own: called on a labeled track whose ids   *)
(* are the run-length ids of its labels (as every caller provides), then   *)
(* called again on its own output.  The function only compares and copies  *)
(* labels, so the tracks are taken up to the exchange of the two labels:   *)
(* the first fix is Steady.                                                *)
(***************************************************************************)
\* one long Steady interval followed by alternating short intervals
LongTrackTypes(n) ==
    AsColumn([i \in 1..n |-> IF i <= 2 \/ i % 2 = 0 THEN "Steady" ELSE "Recovery"])

LongTrackTimes(n) ==
    AsColumn([i \in 1..n |-> IF i = 1 THEN NaN ELSE IF i = 2 THEN Num(60) ELSE Num(10)])

InitMerge ==
    /\ pc = "merging"
    /\ params = [k \in {} |-> <<0, 1>>]
    /\ latitude = <<>>
    /\ longitude = <<>>
    /\ time = <<>>
    /\ \/ \E n \in 1..MaxMergeLen :
            /\ interval_type \in {t \in [1..n -> TypeValues] : t[1] = "Steady"}
            /\ \E times \in [2..n -> MergeTimeValues] :
                 segment_time_seconds = [i \in 1..n |-> IF i = 1 THEN NaN ELSE times[i]]
       \/ /\ interval_type = LongTrackTypes(LongLen)
          /\ segment_time_seconds = LongTrackTimes(LongLen)
    /\ segment_distance_km = ColumnOf(Len(interval_type), NaN)
    /\ pace_min_per_km = ColumnOf(Len(interval_type), NaN)
    /\ interval_id = RunLengthIds(interval_type)
    /\ is_real_interval = <<>>
    /\ df_intervals = interval_type
    /\ min_interval_time_seconds = <<MIN_INTERVAL_TIME_SECONDS, 1>>
    /\ iteration = 0
    /\ exit_reason = "none"
    /\ call = 1
    /\ first_output = <<>>

\* merge_short_intervals(merge_short_intervals(df, m), m): the second call
merge_again ==
    /\ pc = "merged"
    /\ call = 1
    /\ first_output' = [interval_type |-> interval_type, interval_id |-> interval_id,
                        iteration |-> iteration, exit_reason |-> exit_reason]
    /\ call' = 2
    /\ iteration' = 0
    /\ exit_reason' = "none"
    /\ pc' = "merging"
    /\ UNCHANGED <<params, latitude, longitude, time, segment_time_seconds,
                   segment_distance_km, pace_min_per_km, interval_type,
                   interval_id, is_real_interval, df_intervals,
                   min_interval_time_seconds>>

NextMerge ==
    \/ merge_pass
    \/ merge_break_no_short
    \/ merge_break_not_merged
    \/ merge_exit_cap
    \/ merge_again

SpecMerge == InitMerge /\ [][NextMerge]_vars

(***************************************************************************)
(* Properties.                                                             *)
(***************************************************************************)
NumIntervals(ids) == Cardinality(all_ids(ids))
IntervalTime(g) == GroupTotal(segment_time_seconds, interval_id, g)
\* x >= r for a rational r = <<num, den>>
AtLeast(x, r) == x * r[2] >= r[1]
RefinerStages == {"classified", "slow_converted", "low_converted", "merging",
                  "merged", "done"}

\* C1: after the classifier and after every refiner stage (and every
\* completed merge pass) the ids start at 1 on the first fix and grow by
\* exactly 1 where the label changes and nowhere else.
C1_PartitionInvariant ==
    pc \in RefinerStages =>
        /\ Len(interval_id) = Len(time)
        /\ Len(interval_type) = Len(time)
        /\ interval_id[1] = 1
        /\ \A i \in 2..Len(interval_id) :
             interval_id[i] = interval_id[i - 1]
                 + (IF interval_type[i] # interval_type[i - 1] THEN 1 ELSE 0)

C1_Witness ==
    /\ pc = "merging"
    /\ iteration > 0
    /\ interval_id[Len(interval_id)] >= 2

\* C2: the merge loop makes at most 100 passes; before the cap it stops
\* exactly when no interval is short or no short interval has a neighbour
\* (the track is one interval); at the cap it returns the current labeling.
C2_NoShort ==
    \A g \in all_ids(interval_id) : AtLeast(IntervalTime(g), min_interval_time_seconds)

C2_Step ==
    pc = "merging" =>
        IF iteration < max_iterations /\ ~C2_NoShort /\ NumIntervals(interval_id) > 1
        THEN pc' = "merging" /\ iteration' = iteration + 1
        ELSE /\ pc' = "merged"
             /\ iteration' = iteration
             /\ interval_type' = interval_type
             /\ interval_id' = interval_id

C2_BoundedPasses == [](iteration <= max_iterations) /\ [][C2_Step]_vars

C2_Witness ==
    /\ pc = "merged"
    /\ exit_reason = "cap"
    /\ iteration = max_iterations
    /\ ~C2_NoShort

\* C3 as stated: a second call on the output of the first returns the same
\* labels and ids, for any track.
C3_RerunIsNoOp ==
    (pc = "merged" /\ call = 2) =>
        /\ interval_type = first_output.interval_type
        /\ interval_id = first_output.interval_id

\* C3 amended: if the first call made fewer than 100 passes, a second call
\* on its output returns the same labels and ids.
C3_RerunAfterConvergenceIsNoOp ==
    (pc = "merged" /\ call = 2 /\ first_output.iteration < max_iterations) =>
        /\ interval_type = first_output.interval_type
        /\ interval_id = first_output.interval_id

C3_Witness ==
    /\ pc = "merged"
    /\ call = 2
    /\ first_output.iteration > 0
    /\ first_output.iteration < max_iterations

\* C4: intervals g-1, g, g+1 of types T, U, T, the outer two not short and
\* the middle one short: the pass relabels the middle one to T, and a track
\* made of exactly these three intervals comes out as one interval of type T.
C4_ShortBetweenLong(types, ids, g) ==
    /\ {g - 1, g, g + 1} \subseteq all_ids(ids)
    /\ GroupType(types, ids, g - 1) = GroupType(types, ids, g + 1)
    /\ GroupType(types, ids, g - 1) # GroupType(types, ids, g)
    /\ AtLeast(GroupTotal(segment_time_seconds, ids, g - 1), min_interval_time_seconds)
    /\ AtLeast(GroupTotal(segment_time_seconds, ids, g + 1), min_interval_time_seconds)
    /\ ~AtLeast(GroupTotal(segment_time_seconds, ids, g), min_interval_time_seconds)

C4_Pass ==
    (pc = "merging" /\ iteration < max_iterations) =>
        \A g \in all_ids(interval_id) :
            C4_ShortBetweenLong(interval_type, interval_id, g) =>
                /\ iteration' = iteration + 1
                /\ \A i \in Indices(interval_id) :
                     interval_id[i] \in {g - 1, g, g + 1} =>
                        interval_type'[i] = GroupType(interval_type, interval_id, g - 1)

C4_Result ==
    (/\ pc = "merged"
     /\ call = 1
     /\ NumIntervals(RunLengthIds(df_intervals)) = 3
     /\ C4_ShortBetweenLong(df_intervals, RunLengthIds(df_intervals), 2)) =>
        \A i \in Indices(interval_type) :
            interval_type[i] = df_intervals[1] /\ interval_id[i] = 1

C4_ShortMiddleMerged == []C4_Result /\ [][C4_Pass]_vars

C4_Witness ==
    /\ pc = "merged"
    /\ call = 1
    /\ iteration = 1
    /\ NumIntervals(RunLengthIds(df_intervals)) = 3
    /\ C4_ShortBetweenLong(df_intervals, RunLengthIds(df_intervals), 2)

\* the sum of the defined cells of col over the rows in S
RECURSIVE DefinedSum(_, _)
DefinedSum(col, S) ==
    IF S = {} THEN 0
    ELSE LET k == CHOOSE x \in S : TRUE
         IN  (IF col[k] = NaN THEN 0 ELSE col[k][1]) + DefinedSum(col, S \ {k})

PositionMissing(i) == latitude[i] = NaN \/ longitude[i] = NaN

\* C5: a step between two present positions whose speed exceeds 25 km/h has
\* segment distance 0 and keeps its segment time.
C5_OutlierZeroed ==
    pc # "extracted" =>
        \A i \in 2..Len(time) :
            (/\ ~PositionMissing(i - 1)
             /\ ~PositionMissing(i)
             /\ time[i] # NaN
             /\ time[i - 1] # NaN
             /\ time[i][1] - time[i - 1][1] > 0
             /\ 3600 * Abs(latitude[i][1] - latitude[i - 1][1])
                  > 25 * 1000 * (time[i][1] - time[i - 1][1])) =>
                /\ segment_distance_km[i] = Num(0)
                /\ segment_time_seconds[i] = Num(time[i][1] - time[i - 1][1])

\* C6: a fix with a missing latitude or longitude leaves the distance of the
\* segment ending at it and of the segment starting at it undefined, and the
\* rolling pace is the ratio of the sums of the defined cells of its window.
C6_Window(i) ==
    LET w == IF "smoothWin" \in DOMAIN params THEN params.smoothWin[1]
             ELSE SMOOTHING_WINDOW
    IN  {k \in Indices(time) : k <= i /\ k > i - w}

C6_MissingPropagates ==
    pc # "extracted" =>
        /\ \A i \in Indices(time) :
             PositionMissing(i) =>
                /\ segment_distance_km[i] = NaN
                /\ i < Len(time) => segment_distance_km[i + 1] = NaN
        /\ \A i \in Indices(time) :
             LET D == DefinedSum(segment_distance_km, C6_Window(i))
                 T == DefinedSum(segment_time_seconds, C6_Window(i))
             IN  IF D > 0 /\ (\E k \in C6_Window(i) : segment_time_seconds[k] # NaN)
                 THEN /\ pace_min_per_km[i] # NaN
                      /\ pace_min_per_km[i][1] * D = T * pace_min_per_km[i][2]
                 ELSE pace_min_per_km[i] = NaN

C6_Witness ==
    /\ pc = "paced"
    /\ \E i \in Indices(time) :
         /\ PositionMissing(i)
         /\ i < Len(time)
         /\ \E j \in Indices(time) :
              /\ pace_min_per_km[j] # NaN
              /\ {i, i + 1} \subseteq C6_Window(j)

\* C7: a track whose fixes all carry one label when the refiner starts comes
\* out as one interval with id 1, no merge pass relabels a fix, and every fix
\* is real iff the total segment time is at least the minimum.
C7_AllSame(col) == \A i \in Indices(col) : col[i] = col[1]

C7_Result ==
    (pc = "done" /\ C7_AllSame(df_intervals)) =>
        \A i \in Indices(time) :
            /\ interval_id[i] = 1
            /\ is_real_interval[i] =
                 AtLeast(DefinedSum(segment_time_seconds, Indices(time)),
                         min_interval_time_seconds)

C7_NoRelabel ==
    (pc \in {"low_converted", "merging"} /\ C7_AllSame(df_intervals)) =>
        /\ interval_type' = interval_type
        /\ iteration' = 0

C7_SingleInterval == []C7_Result /\ [][C7_NoRelabel]_vars

C7_Witness ==
    /\ pc = "done"
    /\ Len(time) >= 2
    /\ C7_AllSame(df_intervals)
    /\ is_real_interval[1]

\* C8: in a pass, every fix of a short interval takes the start-of-pass type
\* of the previous interval if it has the same type, else of the next one if
\* it has the same type, else of the previous one if there is one, else of
\* the next one; other fixes keep their label; the ids are re-derived from
\* the labels after the pass.
C8_First(g) ==
    CHOOSE a \in Indices(interval_id) :
        interval_id[a] = g /\ \A k \in 1..(a - 1) : interval_id[k] # g

C8_Last(g) ==
    CHOOSE b \in Indices(interval_id) :
        interval_id[b] = g /\ \A k \in (b + 1)..Len(interval_id) : interval_id[k] # g

C8_TargetType(g) ==
    LET own == interval_type[C8_First(g)]
        hasPrev == C8_First(g) > 1
        hasNext == C8_Last(g) < Len(interval_id)
        prevType == interval_type[C8_First(g) - 1]
        nextType == interval_type[C8_Last(g) + 1]
    IN  IF hasPrev /\ prevType = own THEN prevType
        ELSE IF hasNext /\ nextType = own THEN nextType
        ELSE IF hasPrev THEN prevType
        ELSE IF hasNext THEN nextType
        ELSE own

C8_Pass ==
    (pc = "merging" /\ pc' = "merging") =>
        /\ \A i \in Indices(interval_id) :
             interval_type'[i] =
                IF AtLeast(IntervalTime(interval_id[i]), min_interval_time_seconds)
                THEN interval_type[i]
                ELSE C8_TargetType(interval_id[i])
        /\ interval_id'[1] = 1
        /\ \A i \in 2..Len(interval_id) :
             interval_id'[i] = interval_id'[i - 1]
                 + (IF interval_type'[i] # interval_type'[i - 1] THEN 1 ELSE 0)

C8_PassFromSnapshot == [][C8_Pass]_vars

\* two short neighbours followed by more fixes: the second one's target is
\* relabeled earlier in the same pass
C8_Witness ==
    /\ pc = "merging"
    /\ iteration = 1
    /\ call = 1
    /\ NumIntervals(RunLengthIds(df_intervals)) >= 3
    /\ ~AtLeast(GroupTotal(segment_time_seconds, RunLengthIds(df_intervals), 1),
                min_interval_time_seconds)
    /\ ~AtLeast(GroupTotal(segment_time_seconds, RunLengthIds(df_intervals), 2),
                min_interval_time_seconds)

\* C9: convert_low_pace_steady_to_recovery turns into Recovery exactly the
\* Steady intervals whose pace exceeds the threshold or whose distance is
\* below 0.02 km, changes no Recovery fix and no segment time or distance;
\* a track without any position ends up all Recovery.
C9_Rows(i) == {k \in Indices(interval_id) : interval_id[k] = interval_id[i]}

C9_Low(i) ==
    LET D == DefinedSum(segment_distance_km, C9_Rows(i))
        T == DefinedSum(segment_time_seconds, C9_Rows(i))
        thr == IF "minIntervalPacePerKm" \in DOMAIN params
               THEN params.minIntervalPacePerKm ELSE MIN_INTERVAL_PACE_PER_KM
    IN  \/ D > 0 /\ 1000 * T * thr[2] > 60 * thr[1] * D
        \/ 100 * D < 2 * 1000

C9_Step ==
    pc = "slow_converted" =>
        /\ \A i \in Indices(interval_type) :
             interval_type'[i] =
                IF interval_type[i] = "Steady" /\ C9_Low(i) THEN "Recovery"
                ELSE interval_type[i]
        /\ segment_time_seconds' = segment_time_seconds
        /\ segment_distance_km' = segment_distance_km

C9_AllMissing ==
    (/\ pc \in {"low_converted", "merging", "merged", "done"}
     /\ \A i \in Indices(time) : PositionMissing(i)) =>
        \A i \in Indices(time) : interval_type[i] = "Recovery"

C9_LowPaceDemoted == []C9_AllMissing /\ [][C9_Step]_vars

\* a Steady interval above the distance floor demoted for its pace
C9_Witness ==
    /\ pc = "low_converted"
    /\ \E i \in Indices(time) :
         /\ interval_type[i] = "Recovery"
         /\ df_intervals[i] = "Steady"
         /\ segment_distance_km[i] # NaN
         /\ segment_distance_km[i][1] >= 20

\* C10: at the start of every pass adjacent intervals have different types,
\* so a short interval with a predecessor takes the predecessor's type, a
\* short first interval takes the second interval's type, and in a track of
\* two or more intervals every short interval changes its label.
C10_AdjacentDiffer ==
    pc = "merging" =>
        \A g \in all_ids(interval_id) :
            g + 1 \in all_ids(interval_id) =>
                GroupType(interval_type, interval_id, g)
                    # GroupType(interval_type, interval_id, g + 1)

C10_Pass ==
    (pc = "merging" /\ pc' = "merging") =>
        \A i \in Indices(interval_id) :
            ~AtLeast(IntervalTime(interval_id[i]), min_interval_time_seconds) =>
                /\ interval_id[i] > 1 =>
                     interval_type'[i] =
                        GroupType(interval_type, interval_id, interval_id[i] - 1)
                /\ interval_id[i] = 1 =>
                     interval_type'[i] = GroupType(interval_type, interval_id, 2)
                /\ interval_type'[i] # interval_type[i]

C10_ShortAlwaysFlips == []C10_AdjacentDiffer /\ [][C10_Pass]_vars

C10_Witness ==
    /\ pc = "merging"
    /\ iteration >= 2
    /\ NumIntervals(interval_id) >= 2
    /\ ~AtLeast(IntervalTime(1), min_interval_time_seconds)

\* C11: on a track labeled Steady/Recovery whose segment times are not
\* negative, a pass of merge_short_intervals never increases the number of
\* intervals and never relabels a fix of an interval whose total time is at
\* least the minimum at the start of the pass; no step of the function
\* changes a segment time or a segment distance; and when the loop is left
\* before the cap of 100 passes, either no interval is below the minimum or
\* the track is one interval.
C11_NonNegative ==
    \A i \in Indices(segment_time_seconds) :
        segment_time_seconds[i] # NaN => segment_time_seconds[i][1] >= 0

C11_Pass ==
    (C11_NonNegative /\ pc = "merging") =>
        /\ segment_time_seconds' = segment_time_seconds
        /\ segment_distance_km' = segment_distance_km
        /\ NumIntervals(interval_id') <= NumIntervals(interval_id)
        /\ \A i \in Indices(interval_id) :
              AtLeast(IntervalTime(interval_id[i]), min_interval_time_seconds)
                  => interval_type'[i] = interval_type[i]

C11_EarlyExit ==
    (C11_NonNegative /\ pc = "merged" /\ iteration < max_iterations) =>
        \/ \A g \in all_ids(interval_id) :
              AtLeast(IntervalTime(g), min_interval_time_seconds)
        \/ NumIntervals(interval_id) = 1

C11_MergeMonotone == []C11_EarlyExit /\ [][C11_Pass]_vars

C11_Witness ==
    /\ pc = "merged"
    /\ call = 1
    /\ iteration \in 1..(max_iterations - 1)
    /\ C11_NonNegative
    /\ NumIntervals(interval_id) < NumIntervals(RunLengthIds(df_intervals))
    /\ \A g \in all_ids(interval_id) :
          AtLeast(IntervalTime(g), min_interval_time_seconds)

====
